---------------------------- MODULE Spec2Model ----------------------------
(***************************************************************************)
(* Model of shell-mcp-server (src/index.js): the framer readStdin, the     *)
(* dispatcher handleMessage, the execution engine executeCommand with its  *)
(* data / timer / close / error callbacks, the alias table and the history *)
(* log.                                                                    *)
(*                                                                         *)
(* JavaScript strings are sequences of atoms.  In output buffers every     *)
(* atom is one character.  In commands an atom is a whitespace character   *)
(* or a word without whitespace; in paths an atom is "/" or a piece of a   *)
(* path segment.  An optional property of a JSON object is a record        *)
(* [has, v]; has = FALSE is JavaScript's undefined.                        *)
(*                                                                         *)
(* The actions are the callbacks of the event loop.  NextOver(env) is the  *)
(* server in an environment env that fixes the messages, chunks, exit      *)
(* codes and clock steps it may see: Spec is the dispatcher under mixed    *)
(* traffic with executions that overlap; SpecOutput, SpecTimer and SpecCwd *)
(* vary maxOutput, timeout and cwd of an execution; SpecAlias and          *)
(* SpecHistory start from a loaded alias table and a loaded history log;   *)
(* SpecExit tells the exit of a child from the close of its pipes;         *)
(* SpecFramer is readStdin reading its input line by line.                 *)
(***************************************************************************)
EXTENDS Integers, Sequences, FiniteSets, TLC

VARIABLES
    requests,        \* the bodies read so far, in arrival order
    sent,            \* what send() wrote to stdout, in order
    exec,            \* per request: the closure state of its executeCommand
    commandHistory,  \* src/index.js:28
    aliases,         \* src/index.js:31
    now,             \* the wall clock, in ms
    processCwd,      \* process.cwd() of the server
    stdin,           \* the lines written to the server's standard input
    lineNo,          \* how many of them the readline interface has emitted
    framer           \* buffer, contentLength, readingBody of readStdin

vars == <<requests, sent, exec, commandHistory, aliases, now, processCwd, stdin, lineNo, framer>>

-----------------------------------------------------------------------------
(* Bounds of the model *)

MaxReq == 2          \* messages received in one behaviour of Spec
SoloReq == 1         \* messages received in one behaviour of the other specifications
MaxData == 1         \* 'data' events in one behaviour of Spec, SpecTimer, SpecCwd
SoloData == 3        \* 'data' events in one behaviour of SpecOutput
MaxNow == 30000      \* with no timer armed the clock does not pass this instant
MaxFrames == 2       \* frames in the input of SpecFramer

-----------------------------------------------------------------------------
(* config, src/index.js:18-25 *)

defaultTimeout == 30000
maxTimeout == 120000
configMaxOutput == 1024 * 1024
workspaceRoot == <<"/", "root", "/", ".openclaw", "/", "workspace">>
allowedDirectories == {workspaceRoot}

(* JSON values *)
Undefined == "undefined"     \* a property that is not there
JNull == "null"              \* the JSON value null
None == [has |-> FALSE, v |-> <<>>]
NoneInt == [has |-> FALSE, v |-> 0]
Some(x) == [has |-> TRUE, v |-> x]

-----------------------------------------------------------------------------
(* String helpers *)

Min(a, b) == IF a < b THEN a ELSE b

IsPrefix(p, s) == Len(p) <= Len(s) /\ SubSeq(s, 1, Len(p)) = p

\* String.prototype.startsWith
StartsWith(s, p) == IsPrefix(p, s)

IsSuffix(p, s) == Len(p) <= Len(s) /\ SubSeq(s, Len(s) - Len(p) + 1, Len(s)) = p

Contains(s, p) ==
    \E i \in 1..(Len(s) - Len(p) + 1) : SubSeq(s, i, i + Len(p) - 1) = p

\* String.prototype.slice(-n): the last n characters; -0 is 0, so slice(-0)
\* is slice(0), the whole string; a negative n makes the start index
\* positive.
SliceNeg(s, n) ==
    IF n = 0 THEN s
    ELSE IF n > 0 THEN SubSeq(s, (IF Len(s) - n < 0 THEN 0 ELSE Len(s) - n) + 1, Len(s))
    ELSE SubSeq(s, Min(-n, Len(s)) + 1, Len(s))

\* The decimal digits of a natural number, as String(n) prints them.
RECURSIVE Digits(_)
Digits(n) ==
    IF n < 10 THEN <<CASE n = 0 -> "0" [] n = 1 -> "1" [] n = 2 -> "2"
                       [] n = 3 -> "3" [] n = 4 -> "4" [] n = 5 -> "5"
                       [] n = 6 -> "6" [] n = 7 -> "7" [] n = 8 -> "8"
                       [] OTHER -> "9">>
    ELSE Digits(n \div 10) \o Digits(n % 10)

\* `\n[Command timed out after ${Math.floor(timeout / 1000)}s]`
TimeoutMarker(timeout) ==
    <<"\n", "[", "C", "o", "m", "m", "a", "n", "d", " ", "t", "i", "m", "e",
      "d", " ", "o", "u", "t", " ", "a", "f", "t", "e", "r", " ">>
    \o Digits(timeout \div 1000) \o <<"s", "]">>

-----------------------------------------------------------------------------
(* Commands and aliases *)

IsWS(a) == a \in {" ", "\t", "\n"}

RECURSIVE TrimLeft(_)
TrimLeft(s) == IF s # <<>> /\ IsWS(Head(s)) THEN TrimLeft(Tail(s)) ELSE s

RECURSIVE TrimRight(_)
TrimRight(s) ==
    IF s # <<>> /\ IsWS(s[Len(s)]) THEN TrimRight(SubSeq(s, 1, Len(s) - 1)) ELSE s

\* String.prototype.trim
Trim(s) == TrimLeft(TrimRight(s))

\* s.split(/\s+/): the pieces between maximal runs of whitespace; leading
\* or trailing whitespace gives an empty first or last piece.
RECURSIVE SplitWSRec(_, _, _, _)
SplitWSRec(s, i, cur, acc) ==
    IF i > Len(s) THEN Append(acc, cur)
    ELSE IF IsWS(s[i])
         THEN IF i > 1 /\ IsWS(s[i - 1])
              THEN SplitWSRec(s, i + 1, cur, acc)
              ELSE SplitWSRec(s, i + 1, <<>>, Append(acc, cur))
         ELSE SplitWSRec(s, i + 1, Append(cur, s[i]), acc)

SplitWS(s) == SplitWSRec(s, 1, <<>>, <<>>)

\* parts.join(sep)
RECURSIVE Join(_, _)
Join(parts, sep) ==
    IF parts = <<>> THEN <<>>
    ELSE IF Len(parts) = 1 THEN parts[1]
    ELSE parts[1] \o sep \o Join(Tail(parts), sep)

\* Property names every object literal inherits from Object.prototype;
\* aliases[key] is a (truthy) function for them.
ObjectPrototypeKeys == {<<"constructor">>, <<"toString">>, <<"valueOf">>}

\* aliases[key] is truthy
AliasTruthy(table, key) ==
    \/ key \in DOMAIN table /\ table[key] # <<>>
    \/ key \notin DOMAIN table /\ key \in ObjectPrototypeKeys

\* resolveCommand throws: cmd is undefined (cmd.trim), or the looked-up
\* value is an inherited function (it has no split).
resolveCommandThrows(table, cmd) ==
    \/ ~cmd.has
    \/ LET potentialAlias == SplitWS(Trim(cmd.v))[1]
       IN potentialAlias \notin DOMAIN table /\ potentialAlias \in ObjectPrototypeKeys

resolveCommand(table, cmd) ==
    LET trimmed == Trim(cmd)
        parts == SplitWS(trimmed)
        potentialAlias == parts[1]
    IN IF AliasTruthy(table, potentialAlias)
       THEN LET aliasParts == SplitWS(table[potentialAlias])
                rest == Tail(parts)
            IN Join(aliasParts \o rest, <<" ">>)
       ELSE cmd

-----------------------------------------------------------------------------
(* Paths *)

\* s.split("/")
RECURSIVE SplitSlashRec(_, _, _, _)
SplitSlashRec(s, i, cur, acc) ==
    IF i > Len(s) THEN Append(acc, cur)
    ELSE IF s[i] = "/" THEN SplitSlashRec(s, i + 1, <<>>, Append(acc, cur))
    ELSE SplitSlashRec(s, i + 1, Append(cur, s[i]), acc)

SplitSlash(s) == SplitSlashRec(s, 1, <<>>, <<>>)

\* normalizeString of node's path module on an absolute path: empty and "."
\* segments are dropped, ".." removes the segment before it (none at the
\* root).
RECURSIVE NormSegments(_, _)
NormSegments(segs, acc) ==
    IF segs = <<>> THEN acc
    ELSE LET sg == Head(segs) IN
         IF sg = <<>> \/ sg = <<".">> THEN NormSegments(Tail(segs), acc)
         ELSE IF sg = <<"..">>
              THEN NormSegments(Tail(segs),
                       IF acc = <<>> THEN acc ELSE SubSeq(acc, 1, Len(acc) - 1))
              ELSE NormSegments(Tail(segs), Append(acc, sg))

\* path.resolve(p) with one argument: a relative (or empty) p is taken
\* below process.cwd(); the result is absolute, normalized, without a
\* trailing slash.
PathResolve(base, p) ==
    LET abs == IF p # <<>> /\ p[1] = "/" THEN p ELSE base \o <<"/">> \o p
    IN <<"/">> \o Join(NormSegments(SplitSlash(abs), <<>>), <<"/">>)

\* A validation that keeps the requested directory whatever it is.
ResolvedCwdNoFallback(base, cwd) ==
    PathResolve(base, IF cwd.has THEN cwd.v ELSE workspaceRoot)

\* src/index.js:95-102
ResolvedCwd(base, cwd) ==
    LET requested == IF cwd.has THEN cwd.v ELSE workspaceRoot
        resolvedCwd == PathResolve(base, requested)
        isAllowed == \E dir \in allowedDirectories : StartsWith(resolvedCwd, dir)
    IN IF ~isAllowed THEN workspaceRoot ELSE resolvedCwd

-----------------------------------------------------------------------------
(* State *)

\* An exit code: Some(n), or NoneInt for the null a signalled child reports.
IsZero(code) == code.has /\ code.v = 0

NoExec ==
    [phase |-> "none", stdout |-> <<>>, stderr |-> <<>>, killed |-> FALSE,
     timedOut |-> FALSE, timerPending |-> FALSE, timerArg |-> 0, deadline |-> 0,
     startTime |-> 0, resolvedCwd |-> <<>>, resolvedCmd |-> <<>>,
     maxOutput |-> 0, timeout |-> 0, kills |-> 0, chunks |-> 0,
     settled |-> FALSE, exited |-> FALSE]

EmptyTable == [k \in {} |-> <<>>]

\* The closure state of readStdin, src/index.js:262-264
FramerInit == [buffer |-> <<>>, contentLength |-> 0, readingBody |-> FALSE]

\* The state once the module has loaded: the alias table and the history
\* log hold what their files held (src/index.js:238-249).
InitOver(Bases, Tables, Logs) ==
    /\ requests = <<>>
    /\ sent = <<>>
    /\ exec = <<>>
    /\ commandHistory \in Logs
    /\ aliases \in Tables
    /\ now = 0
    /\ processCwd \in Bases
    /\ stdin = <<>>
    /\ lineNo = 0
    /\ framer = FramerInit

-----------------------------------------------------------------------------
(* send, src/index.js:257-259 *)

\* JSON.stringify leaves out a property whose value is undefined.
Stringify(obj) ==
    [req |-> obj.req, hasId |-> obj.id # Undefined, id |-> obj.id,
     outcome |-> obj.outcome, code |-> obj.code, payload |-> obj.payload]

send(out, obj) == Append(out, Stringify(obj))

Response(r, id, outcome, code, payload) ==
    [req |-> r, id |-> id, outcome |-> outcome, code |-> code, payload |-> payload]

Static == [t |-> "static"]

\* The text JSON.stringify makes of a response: one line, the members in
\* the order of the object literal, the id left out when it is undefined.
ResponseText(resp) ==
    <<"{", "\"jsonrpc\":\"2.0\"">>
    \o (IF resp.hasId THEN <<",", "\"id\":", resp.id>> ELSE <<>>)
    \o <<",", IF resp.outcome = "result" THEN "\"result\":{}" ELSE "\"error\":{}", "}">>

\* What console.log(text) writes to standard output: the text and a
\* newline, that is one line.
ConsoleLog(text) == <<text>>

\* The lines send writes for a response, src/index.js:258
Written(resp) == ConsoleLog(ResponseText(resp))

-----------------------------------------------------------------------------
(* getHistory / clearHistory, src/index.js:215-225 *)

Reverse(s) == [i \in 1..Len(s) |-> s[Len(s) + 1 - i]]

\* getHistory(limit = 50)
getHistory(hist, limit) ==
    Reverse(SliceNeg(hist, IF limit.has THEN limit.v ELSE 50))

-----------------------------------------------------------------------------
(* executeCommand, src/index.js:81-210 *)

\* What setTimeout does with its delay argument: below 1 ms it is 1 ms.
TimerDelay(arg) == IF arg < 1 THEN 1 ELSE arg

\* A timer armed with the requested timeout as it is.
TimerArgUnclamped(timeout) == timeout

\* Math.min(timeout, config.maxTimeout)
TimerArg(timeout) == Min(timeout, maxTimeout)

\* The synchronous part of the promise executor throws: resolveCommand
\* throws, or spawn refuses an empty file argument.
ExecutorThrows(table, args) ==
    \/ resolveCommandThrows(table, args.command)
    \/ resolveCommand(table, args.command.v) = <<>>

\* The closure state right after the executor has run; spawnOk = FALSE is
\* a spawn that fails asynchronously (ENOENT for the shell or the cwd).
StartExec(table, base, t, args, spawnOk) ==
    LET timeout == IF args.timeout.has THEN args.timeout.v ELSE defaultTimeout
        maxOutput == IF args.maxOutput.has THEN args.maxOutput.v ELSE configMaxOutput
    IN [NoExec EXCEPT
          !.phase = IF spawnOk THEN "running" ELSE "spawnFailed",
          !.resolvedCmd = resolveCommand(table, args.command.v),
          !.resolvedCwd = ResolvedCwd(base, args.cwd),
          !.startTime = t,
          !.timeout = timeout,
          !.maxOutput = maxOutput,
          !.timerPending = TRUE,
          !.timerArg = TimerArg(timeout),
          !.deadline = t + TimerDelay(TimerArg(timeout))]

\* An output handler that sends the kill for every chunk over the limit.
outputHandlerKillAgain(e, stream, chunk) ==
    LET totalLen == Len(e.stdout) + Len(e.stderr) IN
    IF totalLen > e.maxOutput
    THEN [e EXCEPT !.kills = @ + 1, !.killed = TRUE]
    ELSE IF stream = "stdout"
         THEN [e EXCEPT !.stdout = @ \o chunk]
         ELSE [e EXCEPT !.stderr = @ \o chunk]

\* An output handler that drops the chunk already at the limit.
outputHandlerAtLimit(e, stream, chunk) ==
    LET totalLen == Len(e.stdout) + Len(e.stderr) IN
    IF totalLen >= e.maxOutput
    THEN IF ~e.killed /\ ~e.timedOut
         THEN [e EXCEPT !.kills = @ + 1, !.killed = TRUE]
         ELSE e
    ELSE IF stream = "stdout"
         THEN [e EXCEPT !.stdout = @ \o chunk]
         ELSE [e EXCEPT !.stderr = @ \o chunk]

\* outputHandler, src/index.js:123-141
outputHandler(e, stream, chunk) ==
    LET totalLen == Len(e.stdout) + Len(e.stderr) IN
    IF totalLen > e.maxOutput
    THEN IF ~e.killed /\ ~e.timedOut
         THEN [e EXCEPT !.kills = @ + 1, !.killed = TRUE]
         ELSE e
    ELSE IF stream = "stdout"
         THEN [e EXCEPT !.stdout = @ \o chunk]
         ELSE [e EXCEPT !.stderr = @ \o chunk]

\* A timeout handler that marks the execution and sends no signal.
doTimeoutNoKill(e) ==
    IF ~e.killed /\ ~e.timedOut
    THEN [e EXCEPT !.timedOut = TRUE, !.stderr = @ \o TimeoutMarker(e.timeout)]
    ELSE e

\* doTimeout, src/index.js:147-158
doTimeout(e) ==
    IF ~e.killed /\ ~e.timedOut
    THEN [e EXCEPT !.timedOut = TRUE, !.kills = @ + 1, !.killed = TRUE,
                   !.stderr = @ \o TimeoutMarker(e.timeout)]
    ELSE e

\* A close handler that cuts stderr to maxOutput also after a timeout.
CloseResultCutStderr(e, code, t, command) ==
    [kind |-> "result",
     success |-> IsZero(code) \/ e.timedOut,
     exitCode |-> code,
     stdout |-> SliceNeg(e.stdout, e.maxOutput),
     stderr |-> SliceNeg(e.stderr, e.maxOutput),
     duration |-> t - e.startTime,
     cwd |-> e.resolvedCwd,
     timedOut |-> e.timedOut,
     originalCommand |-> command,
     resolvedCommand |-> e.resolvedCmd]

\* The result object of the close handler, src/index.js:167-177
CloseResult(e, code, t, command) ==
    [kind |-> "result",
     success |-> IsZero(code) \/ e.timedOut,
     exitCode |-> code,
     stdout |-> SliceNeg(e.stdout, e.maxOutput),
     stderr |-> IF e.timedOut THEN e.stderr ELSE SliceNeg(e.stderr, e.maxOutput),
     duration |-> t - e.startTime,
     cwd |-> e.resolvedCwd,
     timedOut |-> e.timedOut,
     originalCommand |-> command,
     resolvedCommand |-> e.resolvedCmd]

\* The history entry of the close handler, src/index.js:181-188
HistoryEntry(e, code, t, r) ==
    [command |-> e.resolvedCmd, cwd |-> e.resolvedCwd, success |-> IsZero(code),
     exitCode |-> code, duration |-> t - e.startTime, timestamp |-> t, req |-> r]

\* The object the error handler resolves with, src/index.js:201-207
ErrorResult(e, command) ==
    [kind |-> "error", success |-> FALSE, error |-> "spawn failed",
     cwd |-> e.resolvedCwd, originalCommand |-> command,
     resolvedCommand |-> e.resolvedCmd]

\* A close handler that records every execution.
PushHistoryAlways(hist, e, code, t, r) == Append(hist, HistoryEntry(e, code, t, r))

\* A close handler that keeps the log in the order the requests arrived.
PushHistoryByArrival(hist, e, code, t, r) ==
    IF ~e.timedOut
    THEN SelectSeq(hist, LAMBDA h : h.req < r)
         \o <<HistoryEntry(e, code, t, r)>>
         \o SelectSeq(hist, LAMBDA h : h.req >= r)
    ELSE hist

\* The close handler records the execution unless it timed out
\* (src/index.js:179-189).
PushHistory(hist, e, code, t, r) ==
    IF ~e.timedOut THEN Append(hist, HistoryEntry(e, code, t, r)) ELSE hist

\* A callback that answers on every resolve().
SettleEveryTime(out, e, response) == send(out, response)

\* resolve(result) followed by the .then callback of handleMessage
\* (src/index.js:383-388): a promise settles once, a later resolve() does
\* nothing, so the callback runs for the first result only.
Settle(out, e, response) == IF e.settled THEN out ELSE send(out, response)

-----------------------------------------------------------------------------
(* handleMessage, src/index.js:300-469 *)

Truthy(opt) == opt.has /\ opt.v # <<>>

SetAlias(table, name, command) ==
    [k \in DOMAIN table \cup {name} |-> IF k = name THEN command ELSE table[k]]

DeleteAlias(table, name) == [k \in DOMAIN table \ {name} |-> table[k]]

\* case 'execute': the executor runs synchronously; a throw in it rejects
\* the promise and the catch branch answers with code -32000.
ExecuteCase(r, id, args) ==
    IF ExecutorThrows(aliases, args)
    THEN /\ exec' = Append(exec, [NoExec EXCEPT !.phase = "rejected", !.settled = TRUE])
         /\ sent' = send(sent, Response(r, id, "error", -32000, [t |-> "thrown"]))
         /\ UNCHANGED <<commandHistory, aliases>>
    ELSE /\ \E spawnOk \in BOOLEAN :
              exec' = Append(exec, StartExec(aliases, processCwd, now, args, spawnOk))
         /\ UNCHANGED <<sent, commandHistory, aliases>>

handleMessage(r, msg) ==
    LET id == msg.id
        toolName == msg.tool
        toolArgs == msg.args
        Reply(outcome, code, payload) ==
            sent' = send(sent, Response(r, id, outcome, code, payload))
        NoExecution == exec' = Append(exec, NoExec)
    IN
    IF msg.method = "initialize"
    THEN Reply("result", 0, Static) /\ NoExecution /\ UNCHANGED <<commandHistory, aliases>>
    ELSE IF msg.method = "notifications/initialized"
    THEN NoExecution /\ UNCHANGED <<sent, commandHistory, aliases>>
    ELSE IF msg.method = "tools/call"
    THEN IF toolName = "execute" THEN ExecuteCase(r, id, toolArgs)
         ELSE IF toolName = "history"
         THEN /\ Reply("result", 0, [t |-> "history",
                                     entries |-> getHistory(commandHistory, toolArgs.limit)])
              /\ NoExecution /\ UNCHANGED <<commandHistory, aliases>>
         ELSE IF toolName = "clearHistory"
         THEN /\ commandHistory' = <<>>
              /\ Reply("result", 0, Static)
              /\ NoExecution /\ UNCHANGED aliases
         ELSE IF toolName = "aliases"
         THEN /\ Reply("result", 0, [t |-> "aliases", table |-> aliases])
              /\ NoExecution /\ UNCHANGED <<commandHistory, aliases>>
         ELSE IF toolName = "addAlias"
         THEN IF Truthy(toolArgs.name) /\ Truthy(toolArgs.command)
              THEN /\ aliases' = SetAlias(aliases, toolArgs.name.v, toolArgs.command.v)
                   /\ Reply("result", 0, Static)
                   /\ NoExecution /\ UNCHANGED commandHistory
              ELSE /\ Reply("error", -32602, Static)
                   /\ NoExecution /\ UNCHANGED <<commandHistory, aliases>>
         ELSE IF toolName = "removeAlias"
         THEN IF Truthy(toolArgs.name) /\ AliasTruthy(aliases, toolArgs.name.v)
              THEN /\ aliases' = DeleteAlias(aliases, toolArgs.name.v)
                   /\ Reply("result", 0, Static)
                   /\ NoExecution /\ UNCHANGED commandHistory
              ELSE /\ Reply("error", -32602, Static)
                   /\ NoExecution /\ UNCHANGED <<commandHistory, aliases>>
         ELSE /\ Reply("error", -32601, Static)
              /\ NoExecution /\ UNCHANGED <<commandHistory, aliases>>
    ELSE Reply("error", -32600, Static) /\ NoExecution /\ UNCHANGED <<commandHistory, aliases>>

-----------------------------------------------------------------------------
(* Actions *)

\* The try / catch of the body branch (src/index.js:286-291): a body that
\* parses goes to handleMessage, one that does not is answered with a parse
\* error and id null.
Dispatch(body) ==
    /\ requests' = Append(requests, body)
    /\ IF body.parsed
       THEN handleMessage(Len(requests) + 1, body)
       ELSE /\ sent' = send(sent, Response(Len(requests) + 1, JNull, "error", -32700, Static))
            /\ exec' = Append(exec, NoExec)
            /\ UNCHANGED <<commandHistory, aliases>>

\* The lines of one whole frame arrive and its body is complete
\* (src/index.js:285-295); the framer is back where it was.
ReceiveBody(N, body) ==
    /\ Len(requests) < N
    /\ Dispatch(body)
    /\ UNCHANGED <<now, processCwd, stdin, lineNo, framer>>

\* The 'data' events delivered so far.
RECURSIVE DataEvents(_)
DataEvents(es) == IF es = <<>> THEN 0 ELSE Head(es).chunks + DataEvents(Tail(es))

\* A 'data' event of child.stdout or child.stderr (src/index.js:143-144).
OnData(K, r, stream, chunk) ==
    /\ r \in 1..Len(exec)
    /\ exec[r].phase = "running"
    /\ DataEvents(exec) < K
    /\ exec' = [exec EXCEPT ![r] = [outputHandler(exec[r], stream, chunk)
                                       EXCEPT !.chunks = @ + 1]]
    /\ UNCHANGED <<requests, sent, commandHistory, aliases, now, processCwd, stdin, lineNo, framer>>

\* The timer armed at src/index.js:160 fires.  The 'error' event of a
\* failed spawn is queued with process.nextTick and so precedes it.
TimerFire(r) ==
    /\ r \in 1..Len(exec)
    /\ exec[r].phase = "running"
    /\ exec[r].timerPending
    /\ now >= exec[r].deadline
    /\ exec' = [exec EXCEPT ![r] = [doTimeout(exec[r]) EXCEPT !.timerPending = FALSE]]
    /\ UNCHANGED <<requests, sent, commandHistory, aliases, now, processCwd, stdin, lineNo, framer>>

\* Exit codes of a child that ran: a number, or null when a signal ended it.
ExitCodes == {Some(0), Some(1), NoneInt}

\* The requests that are calls of the execute tool.
IsExecute(msg) == msg.parsed /\ msg.method = "tools/call" /\ msg.tool = "execute"

\* The code 'close' carries after a failed spawn: the negative errno.
SpawnErrno == Some(-2)

\* child.on('close'), src/index.js:162-196.  resolve() on a promise that
\* is already settled does nothing, so the response is sent at most once.
OnClose(r, code) ==
    /\ r \in 1..Len(exec)
    /\ \/ exec[r].phase = "running" /\ code \in ExitCodes
       \/ exec[r].phase = "errored" /\ code = SpawnErrno
    /\ LET e == exec[r]
           result == CloseResult(e, code, now, requests[r].args.command.v)
       IN /\ commandHistory' = PushHistory(commandHistory, e, code, now, r)
          /\ exec' = [exec EXCEPT ![r] = [e EXCEPT !.phase = "closed",
                                                   !.timerPending = FALSE,
                                                   !.settled = TRUE]]
          /\ sent' = Settle(sent, e, Response(r, requests[r].id, "result", 0,
                                              [t |-> "exec", result |-> result]))
    /\ UNCHANGED <<requests, aliases, now, processCwd, stdin, lineNo, framer>>

\* child.on('error'), src/index.js:198-208
OnError(r) ==
    /\ r \in 1..Len(exec)
    /\ exec[r].phase = "spawnFailed"
    /\ LET e == exec[r]
           result == ErrorResult(e, requests[r].args.command.v)
       IN /\ exec' = [exec EXCEPT ![r] = [e EXCEPT !.phase = "errored",
                                                   !.timerPending = FALSE,
                                                   !.settled = TRUE]]
          /\ sent' = Settle(sent, e, Response(r, requests[r].id, "result", 0,
                                              [t |-> "exec", result |-> result]))
    /\ UNCHANGED <<requests, commandHistory, aliases, now, processCwd, stdin, lineNo, framer>>

\* The child ends by itself, before any signal was sent to it.  The code
\* has no 'exit' handler: 'close' follows when the pipes of the child have
\* been closed, which is later when something else still holds them.
OnExit(r) ==
    /\ r \in 1..Len(exec)
    /\ exec[r].phase = "running"
    /\ exec[r].kills = 0
    /\ ~exec[r].exited
    /\ exec' = [exec EXCEPT ![r].exited = TRUE]
    /\ UNCHANGED <<requests, sent, commandHistory, aliases, now, processCwd, stdin, lineNo, framer>>

\* The deadlines of the timers that are armed on running children.
PendingDeadlines ==
    {exec[r].deadline : r \in {q \in 1..Len(exec) :
                                  exec[q].phase = "running" /\ exec[q].timerPending}}

SetMin(S) == CHOOSE x \in S : \A y \in S : x <= y

\* Time passes.  A timer fires when its delay has elapsed, so the clock
\* never passes the deadline of a timer that is still armed.
Advance(d) ==
    /\ IF PendingDeadlines = {}
       THEN now + d <= MaxNow /\ now' = now + d
       ELSE now < SetMin(PendingDeadlines) /\ now' = Min(now + d, SetMin(PendingDeadlines))
    /\ UNCHANGED <<requests, sent, exec, commandHistory, aliases, processCwd, stdin, lineNo, framer>>

\* The steps of the server in an environment env: the messages it may
\* receive (at most env.N), the 'data' events its children may raise (at
\* most env.K), the exit codes they may report and the steps of the clock.
NextOver(env) ==
    \/ \E body \in env.bodies : ReceiveBody(env.N, body)
    \/ \E r \in 1..Len(exec) : \E stream \in env.streams :
           \E chunk \in env.chunks : OnData(env.K, r, stream, chunk)
    \/ \E r \in 1..Len(exec) : TimerFire(r)
    \/ \E r \in 1..Len(exec) : \E code \in env.codes \cup {SpawnErrno} : OnClose(r, code)
    \/ \E r \in 1..Len(exec) : OnError(r)
    \/ \E d \in env.steps : Advance(d)

-----------------------------------------------------------------------------
(* Inputs *)

NoArgs ==
    [command |-> None, cwd |-> None, timeout |-> NoneInt, maxOutput |-> NoneInt,
     name |-> None, limit |-> NoneInt]

\* A body that JSON.parse rejects.
Unparsable ==
    [parsed |-> FALSE, id |-> Undefined, method |-> Undefined, tool |-> Undefined,
     args |-> NoArgs]

Msg(id, method, tool, args) ==
    [parsed |-> TRUE, id |-> id, method |-> method, tool |-> tool, args |-> args]

Call(tool, args) == [method |-> "tools/call", tool |-> tool, args |-> args]

Plain(method) == [method |-> method, tool |-> Undefined, args |-> NoArgs]

ExecuteArgs(command) == [NoArgs EXCEPT !.command = command]

ServerDir == workspaceRoot \o <<"/", "shell-mcp-server">>

\* The id of a message: absent, null, or a string.
Ids == {Undefined, JNull, "1", "2"}

AddAliasArgs == [NoArgs EXCEPT !.name = Some(<<"gp">>),
                               !.command = Some(<<"git", " ", "pull">>)]

Bodies ==
    {Unparsable}
    \cup {Msg(id, "tools/call", "execute", ExecuteArgs(Some(<<"ls">>))) : id \in {"1", "2"}}
    \cup {Msg(id, "initialize", Undefined, NoArgs) : id \in {Undefined, JNull, "1"}}
    \cup { Msg(Undefined, "notifications/initialized", Undefined, NoArgs),
           Msg("2", "ping", Undefined, NoArgs),
           Msg("1", "tools/call", "history", NoArgs),
           Msg("2", "tools/call", "clearHistory", NoArgs),
           Msg("1", "tools/call", "aliases", NoArgs),
           Msg("1", "tools/call", "addAlias", AddAliasArgs),
           Msg("2", "tools/call", "addAlias", [NoArgs EXCEPT !.name = Some(<<"gp">>)]),
           Msg("2", "tools/call", "removeAlias", [NoArgs EXCEPT !.name = Some(<<"gp">>)]),
           Msg("1", "tools/call", "removeAlias",
               [NoArgs EXCEPT !.name = Some(<<"constructor">>)]),
           Msg(JNull, "tools/call", "nope", NoArgs),
           Msg("1", "tools/call", "execute", NoArgs),
           Msg("2", "tools/call", "execute", ExecuteArgs(Some(<<>>))) }

Traffic ==
    [N |-> MaxReq, K |-> MaxData, bodies |-> Bodies, streams |-> {"stdout"},
     chunks |-> {<<"a">>}, codes |-> {Some(0), NoneInt}, steps |-> {maxTimeout}]

-----------------------------------------------------------------------------
(* The server under any traffic *)

Init == InitOver({ServerDir}, {EmptyTable}, {<<>>})

Next == NextOver(Traffic)

Spec == Init /\ [][Next]_vars

-----------------------------------------------------------------------------
(* One execution and its output *)

OutputBodies ==
    {Msg("1", "tools/call", "execute",
         [ExecuteArgs(Some(<<"ls">>)) EXCEPT !.maxOutput = m]) :
        m \in {NoneInt, Some(0), Some(1)}}

OutputEnv ==
    [N |-> SoloReq, K |-> SoloData, bodies |-> OutputBodies,
     streams |-> {"stdout", "stderr"}, chunks |-> {<<"a", "b">>},
     codes |-> ExitCodes, steps |-> {defaultTimeout}]

NextOutput == NextOver(OutputEnv)

SpecOutput == Init /\ [][NextOutput]_vars

-----------------------------------------------------------------------------
(* One execution and its timer *)

TimerBodies ==
    {Msg("1", "tools/call", "execute",
         [ExecuteArgs(Some(<<"ls">>)) EXCEPT !.timeout = t]) :
        t \in {NoneInt, Some(0), Some(1000), Some(120000), Some(120001), Some(500000)}}

TimerEnv ==
    [N |-> SoloReq, K |-> MaxData, bodies |-> TimerBodies,
     streams |-> {"stdout"}, chunks |-> {<<"a">>},
     codes |-> ExitCodes, steps |-> {maxTimeout}]

NextTimer == NextOver(TimerEnv)

SpecTimer == Init /\ [][NextTimer]_vars

\* Time passes in the timer environment.
Tick == \E d \in TimerEnv.steps : Advance(d)

\* The 'close' event of a child that was sent SIGKILL.
KilledClose(r) ==
    /\ r \in 1..Len(exec)
    /\ exec[r].kills > 0
    /\ \E code \in TimerEnv.codes : OnClose(r, code)

\* Time passes, an armed timer whose delay has elapsed fires, and a child
\* that was sent SIGKILL ends and closes its streams.
FairSpecTimer ==
    /\ SpecTimer
    /\ WF_vars(Tick)
    /\ \A r \in 1..SoloReq : WF_vars(TimerFire(r)) /\ WF_vars(KilledClose(r))

-----------------------------------------------------------------------------
(* One execution and its working directory *)

TmpDir == <<"/", "tmp">>

\* Requested directories: in the workspace, below it, above it, beside it,
\* relative, and with segments that path.resolve removes.
CwdInputs ==
    { None,
      Some(workspaceRoot),
      Some(workspaceRoot \o <<"/", "sub">>),
      Some(workspaceRoot \o <<"/">>),
      Some(workspaceRoot \o <<"/", "sub", "/", "..">>),
      Some(workspaceRoot \o <<"/", ".", "/", "/", "sub">>),
      Some(workspaceRoot \o <<"/", "..", "/", "..", "/", "etc">>),
      Some(workspaceRoot \o <<"-evil">>),
      Some(<<"/", "root", "/", ".openclaw">>),
      Some(<<"/", "etc">>),
      Some(<<"/">>),
      Some(<<"sub">>),
      Some(<<"..", "/", "..">>),
      Some(<<>>) }

CwdBodies ==
    {Msg("1", "tools/call", "execute", [ExecuteArgs(Some(<<"ls">>)) EXCEPT !.cwd = c]) :
        c \in CwdInputs}

CwdEnv ==
    [N |-> SoloReq, K |-> MaxData, bodies |-> CwdBodies,
     streams |-> {"stdout"}, chunks |-> {<<"a">>},
     codes |-> {Some(0), NoneInt}, steps |-> {maxTimeout}]

InitCwd == InitOver({ServerDir, TmpDir}, {EmptyTable}, {<<>>})

NextCwd == NextOver(CwdEnv)

SpecCwd == InitCwd /\ [][NextCwd]_vars

-----------------------------------------------------------------------------
(* One execution and the alias table *)

\* A table that loadAliases read from the aliases file (src/index.js:36-45).
LoadedAliases ==
    SetAlias(SetAlias(SetAlias(EmptyTable, <<"gp">>, <<"git", " ", "pull">>),
                      <<"a">>, <<"b", " ", "x">>),
             <<"b">>, <<"c">>)

\* Commands: an alias alone, with arguments, in a later position, with
\* whitespace around and between the words, an alias whose template starts
\* with an alias, no alias, and a word every object inherits.
AliasCommands ==
    { <<"gp">>,
      <<"gp", " ", "origin">>,
      <<"ls", " ", "gp">>,
      <<" ", "gp", " ", "\t", "origin", " ">>,
      <<"a", " ", "y">>,
      <<"b">>,
      <<"echo", "\t", "hi", " ">>,
      <<"constructor", " ", "x">> }

AliasBodies ==
    {Msg("1", "tools/call", "execute", ExecuteArgs(Some(c))) : c \in AliasCommands}

AliasEnv ==
    [N |-> SoloReq, K |-> MaxData, bodies |-> AliasBodies,
     streams |-> {"stdout"}, chunks |-> {<<"a">>},
     codes |-> {Some(0), NoneInt}, steps |-> {maxTimeout}]

InitAlias == InitOver({ServerDir}, {EmptyTable, LoadedAliases}, {<<>>})

NextAlias == NextOver(AliasEnv)

SpecAlias == InitAlias /\ [][NextAlias]_vars

-----------------------------------------------------------------------------
(* The history log and its query *)

\* An entry that was saved by an earlier run of the server.
SavedEntry(i) ==
    [command |-> <<"ls">>, cwd |-> workspaceRoot, success |-> TRUE,
     exitCode |-> Some(0), duration |-> i, timestamp |-> i - 60, req |-> 0]

\* The log after the history file was loaded (src/index.js:238-246).
SavedLog(n) == [i \in 1..n |-> SavedEntry(i)]

HistoryLogs == {SavedLog(n) : n \in {0, 1, 3, 51}}

HistoryLimits == {NoneInt, Some(0), Some(1), Some(2), Some(3), Some(5), Some(50), Some(60)}

HistoryBodies ==
    {Msg("1", "tools/call", "history", [NoArgs EXCEPT !.limit = k]) : k \in HistoryLimits}
    \cup {Msg("2", "tools/call", "execute", ExecuteArgs(Some(<<"ls">>)))}

HistoryEnv ==
    [N |-> SoloReq, K |-> MaxData, bodies |-> HistoryBodies,
     streams |-> {"stdout"}, chunks |-> {<<"a">>},
     codes |-> ExitCodes, steps |-> {maxTimeout}]

InitHistory == InitOver({ServerDir}, {EmptyTable}, HistoryLogs)

NextHistory == NextOver(HistoryEnv)

SpecHistory == InitHistory /\ [][NextHistory]_vars

-----------------------------------------------------------------------------
(* The message framer, src/index.js:261-298 *)
(* A line is a sequence of atoms, each a piece of its text; the length of  *)
(* a text is the number of its characters.                                  *)

\* The header name, matched without regard to case (the flag i).
IsHeaderName(a) == a \in {"Content-Length:", "content-length:", "CONTENT-LENGTH:"}

IsDigit(a) == a \in {"0", "1", "2", "3", "4", "5", "6", "7", "8", "9"}

DigitValue(a) ==
    CASE a = "0" -> 0 [] a = "1" -> 1 [] a = "2" -> 2 [] a = "3" -> 3
      [] a = "4" -> 4 [] a = "5" -> 5 [] a = "6" -> 6 [] a = "7" -> 7
      [] a = "8" -> 8 [] a = "9" -> 9

\* parseInt(match[1], 10)
RECURSIVE ParseInt(_)
ParseInt(ds) ==
    IF ds = <<>> THEN 0
    ELSE ParseInt(SubSeq(ds, 1, Len(ds) - 1)) * 10 + DigitValue(ds[Len(ds)])

\* line.match(/^Content-Length:\s*(\d+)$/i): the name, any whitespace, then
\* digits up to the end of the line.
MatchContentLength(line) ==
    LET rest == IF line = <<>> THEN <<>> ELSE TrimLeft(Tail(line)) IN
    IF /\ line # <<>>
       /\ IsHeaderName(line[1])
       /\ rest # <<>>
       /\ \A i \in 1..Len(rest) : IsDigit(rest[i])
    THEN Some(ParseInt(rest))
    ELSE NoneInt

\* buffer.length
RECURSIVE StrLen(_)
StrLen(s) == IF s = <<>> THEN 0 ELSE Len(Head(s)) + StrLen(Tail(s))

\* The JSON texts the peer sends, each with the message it stands for.
PingText == <<"{", "\"id\":\"1\"", ",", "\"method\":\"ping\"", "}">>

InitializeText == <<"{", "\"id\":\"2\"", ",", "\"method\":\"initialize\"", "}">>

\* JSON.parse(buffer): whitespace between the tokens does not count; a
\* text that is not one whole document makes it throw.
JSONParse(buffer) ==
    LET text == SelectSeq(buffer, LAMBDA a : ~IsWS(a)) IN
    CASE text = PingText -> Msg("1", "ping", Undefined, NoArgs)
      [] text = InitializeText -> Msg("2", "initialize", Undefined, NoArgs)
      [] OTHER -> Unparsable

\* A framer that waits for a buffer of exactly the announced length.
BodyCompleteExact(buffer, contentLength) == StrLen(buffer) = contentLength

\* buffer.length >= contentLength, src/index.js:285
BodyComplete(buffer, contentLength) == StrLen(buffer) >= contentLength

\* A framer that goes back to the headers only after a body that parsed.
AfterBodyIfParsed(f, parsed) == IF parsed THEN FramerInit ELSE f

\* The reset after the try / catch, src/index.js:292-294
AfterBody(f, parsed) ==
    [f EXCEPT !.readingBody = FALSE, !.contentLength = 0, !.buffer = <<>>]

\* A 'line' handler that takes every blank line for the end of the headers.
lineHandlerAnyBlank(f, line) ==
    IF ~f.readingBody
    THEN LET match == MatchContentLength(line) IN
         [complete |-> FALSE, text |-> <<>>,
          state |-> IF match.has THEN [f EXCEPT !.contentLength = match.v]
                    ELSE IF Trim(line) = <<>>
                         THEN [f EXCEPT !.readingBody = TRUE, !.buffer = <<>>]
                         ELSE f]
    ELSE LET buffer == f.buffer \o line \o <<"\n">> IN
         IF BodyComplete(buffer, f.contentLength)
         THEN [complete |-> TRUE, text |-> buffer,
               state |-> AfterBody([f EXCEPT !.buffer = buffer],
                                   JSONParse(buffer).parsed)]
         ELSE [complete |-> FALSE, text |-> <<>>,
               state |-> [f EXCEPT !.buffer = buffer]]

\* The 'line' handler on the closure state f: the state it leaves, and the
\* buffer it parses when the body is complete.
lineHandler(f, line) ==
    IF ~f.readingBody
    THEN LET match == MatchContentLength(line) IN
         [complete |-> FALSE, text |-> <<>>,
          state |-> IF match.has THEN [f EXCEPT !.contentLength = match.v]
                    ELSE IF Trim(line) = <<>> /\ f.contentLength > 0
                         THEN [f EXCEPT !.readingBody = TRUE, !.buffer = <<>>]
                         ELSE f]
    ELSE LET buffer == f.buffer \o line \o <<"\n">> IN
         IF BodyComplete(buffer, f.contentLength)
         THEN [complete |-> TRUE, text |-> buffer,
               state |-> AfterBody([f EXCEPT !.buffer = buffer],
                                   JSONParse(buffer).parsed)]
         ELSE [complete |-> FALSE, text |-> <<>>,
               state |-> [f EXCEPT !.buffer = buffer]]

\* rl.on('line'), src/index.js:270-297: the next line of the input.
OnLine ==
    /\ lineNo < Len(stdin)
    /\ LET h == lineHandler(framer, stdin[lineNo + 1]) IN
       /\ lineNo' = lineNo + 1
       /\ framer' = h.state
       /\ IF h.complete
          THEN Dispatch(JSONParse(h.text))
          ELSE UNCHANGED <<requests, sent, exec, commandHistory, aliases>>
    /\ UNCHANGED <<now, processCwd, stdin>>

-----------------------------------------------------------------------------
(* The framer and its input *)

\* A frame as the peer writes it: header lines, the Content-Length header,
\* a blank line, the lines of the body; msg is the message the body holds.
HeaderLine(name, n) == <<name, " ">> \o Digits(n)

FrameLines(fr) == fr.other \o <<HeaderLine(fr.name, fr.n)>> \o <<fr.blank>> \o fr.body

ContentType == <<"Content-Type:", " ", "application/json">>

\* A Content-Length header the pattern does not match: it ends with a space.
PaddedHeader == <<"Content-Length:", " ", "2", "7", " ">>

Frames ==
    { \* the length counts the newline of the body line
      [other |-> <<>>, name |-> "Content-Length:", n |-> 27, blank |-> <<>>,
       body |-> <<PingText>>, msg |-> Msg("1", "ping", Undefined, NoArgs)],
      \* the length is that of the JSON text
      [other |-> <<>>, name |-> "Content-Length:", n |-> 26, blank |-> <<>>,
       body |-> <<PingText>>, msg |-> Msg("1", "ping", Undefined, NoArgs)],
      \* another header, lower case, a blank line of one space, two body lines
      [other |-> <<ContentType>>, name |-> "content-length:", n |-> 34,
       blank |-> <<" ">>,
       body |-> <<SubSeq(InitializeText, 1, 3), SubSeq(InitializeText, 4, 5)>>,
       msg |-> Msg("2", "initialize", Undefined, NoArgs)],
      \* a body that is not JSON
      [other |-> <<>>, name |-> "Content-Length:", n |-> 5, blank |-> <<>>,
       body |-> <<<<"{", "oops">>>>, msg |-> Unparsable],
      \* length zero
      [other |-> <<>>, name |-> "Content-Length:", n |-> 0, blank |-> <<>>,
       body |-> <<PingText>>, msg |-> Msg("1", "ping", Undefined, NoArgs)],
      \* a length the pattern does not match, then length zero
      [other |-> <<PaddedHeader>>, name |-> "Content-Length:", n |-> 0, blank |-> <<>>,
       body |-> <<PingText>>, msg |-> Msg("1", "ping", Undefined, NoArgs)],
      \* a length the body does not reach
      [other |-> <<>>, name |-> "Content-Length:", n |-> 40, blank |-> <<>>,
       body |-> <<PingText>>, msg |-> Msg("1", "ping", Undefined, NoArgs)] }

FrameSeqs == UNION {[1..k -> Frames] : k \in 0..MaxFrames}

\* The lines of the frames, one after the other.
RECURSIVE StreamOf(_)
StreamOf(fs) == IF fs = <<>> THEN <<>> ELSE FrameLines(Head(fs)) \o StreamOf(Tail(fs))

Streams == {StreamOf(fs) : fs \in FrameSeqs}

InitFramer ==
    /\ requests = <<>>
    /\ sent = <<>>
    /\ exec = <<>>
    /\ commandHistory = <<>>
    /\ aliases = EmptyTable
    /\ now = 0
    /\ processCwd = ServerDir
    /\ stdin \in Streams
    /\ lineNo = 0
    /\ framer = FramerInit

NextFramer == OnLine

SpecFramer == InitFramer /\ [][NextFramer]_vars

-----------------------------------------------------------------------------
(* One execution, the exit of its child and the close of its pipes *)

ExitBodies ==
    {Msg("1", "tools/call", "execute",
         [ExecuteArgs(Some(<<"ls">>)) EXCEPT !.timeout = t]) :
        t \in {NoneInt, Some(1000)}}

ExitEnv ==
    [N |-> SoloReq, K |-> MaxData, bodies |-> ExitBodies,
     streams |-> {"stdout", "stderr"}, chunks |-> {<<"a">>},
     codes |-> ExitCodes, steps |-> {defaultTimeout}]

NextExit ==
    \/ NextOver(ExitEnv)
    \/ \E r \in 1..Len(exec) : OnExit(r)

SpecExit == Init /\ [][NextExit]_vars

-----------------------------------------------------------------------------
(* Properties of the dispatcher *)

Responses(r) == {i \in 1..Len(sent) : sent[i].req = r}

InFlight(r) == exec[r].phase \in {"running", "spawnFailed"}

\* C1: executeCommand never rejects, so no response carries the code
\* -32000 of the dispatcher's rejection branch.
C1_NeverRejects ==
    /\ \A i \in 1..Len(sent) : sent[i].code # -32000
    /\ \A r \in 1..Len(exec) : exec[r].phase # "rejected"

\* C2: every message handed to the dispatcher has exactly one response,
\* sent when it is handled or, for an execute, when its promise settles;
\* notifications/initialized has none; an execute whose child raised 'error'
\* and then 'close' still has one response only.
C2_OneResponse ==
    \A r \in 1..Len(requests) :
        requests[r].parsed =>
            Cardinality(Responses(r)) =
                IF requests[r].method = "notifications/initialized" THEN 0
                ELSE IF IsExecute(requests[r]) /\ InFlight(r) THEN 0
                ELSE 1

\* An execute whose failed spawn raised 'error' and then 'close' (the close
\* left the errno in the history) while another execute had been answered.
C2_Witness ==
    \E r \in 1..Len(exec) :
        /\ exec[r].phase = "closed"
        /\ \E i \in 1..Len(commandHistory) :
               commandHistory[i].req = r /\ commandHistory[i].exitCode = SpawnErrno
        /\ Cardinality(Responses(r)) = 1
        /\ \E q \in 1..Len(exec) : q # r /\ exec[q].phase = "closed"

\* C3: the response carries the id of its request; the id is null when the
\* body did not parse or the message has no id.
C3_IdEchoed ==
    \A i \in 1..Len(sent) :
        LET msg == requests[sent[i].req] IN
        /\ sent[i].hasId
        /\ sent[i].id = IF ~msg.parsed \/ msg.id = Undefined THEN JNull ELSE msg.id

\* No clearHistory has been handled.
NoClear ==
    \A r \in 1..Len(requests) :
        ~(requests[r].parsed /\ requests[r].method = "tools/call"
          /\ requests[r].tool = "clearHistory")

\* C4: without clearHistory, the log holds exactly one entry for each
\* execution whose close event came with timedOut = false, and none for any
\* other, so its length is the number of those executions.
C4_HistoryCount ==
    NoClear =>
        /\ \A r \in 1..Len(exec) :
               Cardinality({i \in 1..Len(commandHistory) : commandHistory[i].req = r})
                   = IF exec[r].phase = "closed" /\ ~exec[r].timedOut THEN 1 ELSE 0
        /\ Len(commandHistory) =
               Cardinality({r \in 1..Len(exec) :
                               exec[r].phase = "closed" /\ ~exec[r].timedOut})

\* Two executions overlapped (the later request was answered first); one
\* timed out and the other did not; the log has one entry.
C4_Witness ==
    /\ NoClear
    /\ \E r, q \in 1..Len(exec) :
           /\ r < q
           /\ exec[r].phase = "closed" /\ exec[q].phase = "closed"
           /\ exec[r].timedOut # exec[q].timedOut
           /\ \E i, j \in 1..Len(sent) : i < j /\ sent[i].req = q /\ sent[j].req = r
    /\ Len(commandHistory) = 1

-----------------------------------------------------------------------------
(* Properties of the timer *)

\* C7: an execute whose child was spawned is answered in the end, also
\* when the child never exits by itself: the timer fires, the kill is sent,
\* the close event arrives and the result is sent.
C7_EventuallyAnswered ==
    \A r \in 1..SoloReq :
        (r \in 1..Len(exec) /\ exec[r].phase = "running")
            ~> (r \in 1..Len(exec) /\ exec[r].phase = "closed"
                /\ Cardinality(Responses(r)) = 1)

\* An execution that ended by its timer has been answered.
C7_Witness ==
    \E r \in 1..Len(exec) :
        /\ exec[r].phase = "closed" /\ exec[r].timedOut
        /\ Cardinality(Responses(r)) = 1
        /\ now - exec[r].startTime = maxTimeout

\* The timeout argument of a request, with the default for an absent one.
RequestedTimeout(msg) == IF msg.args.timeout.has THEN msg.args.timeout.v ELSE 30000

\* C8: the timer is armed with min(timeout, 120000), 30000 standing in for
\* an omitted timeout, and no child is running without a kill sent more
\* than 120000 ms after it was spawned.
C8_TimerClamped ==
    \A r \in 1..Len(exec) :
        exec[r].phase \in {"running", "spawnFailed"} =>
            /\ exec[r].timerArg = IF RequestedTimeout(requests[r]) <= 120000
                                  THEN RequestedTimeout(requests[r]) ELSE 120000
            /\ exec[r].timerPending
                   => exec[r].deadline - exec[r].startTime <= 120000
            /\ exec[r].phase = "running" /\ exec[r].kills = 0
                   => now - exec[r].startTime <= 120000

\* A child asked to run with a timeout above the maximum is still running,
\* not killed, 120000 ms after its spawn, with its timer due.
C8_Witness ==
    \E r \in 1..Len(exec) :
        /\ requests[r].args.timeout.has /\ requests[r].args.timeout.v > 120000
        /\ exec[r].phase = "running" /\ exec[r].kills = 0
        /\ exec[r].timerPending
        /\ now - exec[r].startTime = 120000

-----------------------------------------------------------------------------
(* Properties of the output *)

\* The results of executions that were sent: the object and its request.
ExecResults ==
    {[r |-> sent[i].req, result |-> sent[i].payload.result] :
        i \in {j \in 1..Len(sent) : sent[j].payload.t = "exec"}}

CloseResults == {x \in ExecResults : x.result.kind = "result"}

\* The maxOutput argument of a request, with the default for an absent one.
RequestedMaxOutput(msg) ==
    IF msg.args.maxOutput.has THEN msg.args.maxOutput.v ELSE 1024 * 1024

MarkerOf(r) == TimeoutMarker(RequestedTimeout(requests[r]))

\* A timer that has fired on a running child either set timedOut or found
\* the overflow kill already sent.
TimerFiredMarks ==
    \A r \in 1..Len(exec) :
        exec[r].phase = "running" /\ ~exec[r].timerPending =>
            \/ exec[r].timedOut /\ exec[r].kills = 1
            \/ /\ ~exec[r].timedOut /\ exec[r].kills = 1
               /\ Len(exec[r].stdout) + Len(exec[r].stderr) > exec[r].maxOutput

\* success is (exitCode = 0) or timedOut in every result of a close, false
\* in the result of a failed spawn, and exitCode = 0 in every history entry.
SuccessFlags ==
    /\ \A x \in ExecResults :
           IF x.result.kind = "result"
           THEN /\ x.result.success = (IsZero(x.result.exitCode) \/ x.result.timedOut)
                /\ x.result.timedOut = exec[x.r].timedOut
           ELSE x.result.success = FALSE
    /\ \A i \in 1..Len(commandHistory) :
           commandHistory[i].success = IsZero(commandHistory[i].exitCode)

\* C5 as stated: a result with timedOut has success = true and a stderr
\* that ends with the timeout marker.
C5_StderrEndsWithMarker ==
    /\ TimerFiredMarks
    /\ SuccessFlags
    /\ \A x \in CloseResults :
           x.result.timedOut =>
               x.result.success /\ IsSuffix(MarkerOf(x.r), x.result.stderr)

\* C5 as amended: a result with timedOut has success = true whatever the
\* exit code and a stderr that contains the whole timeout marker, also when
\* the stderr buffer is longer than maxOutput; what the child wrote to stderr
\* after the timer fired follows the marker.
C5_StderrHasMarker ==
    /\ TimerFiredMarks
    /\ SuccessFlags
    /\ \A x \in CloseResults :
           x.result.timedOut =>
               /\ x.result.success
               /\ Contains(x.result.stderr, MarkerOf(x.r))
               /\ x.result.stderr = exec[x.r].stderr

\* A timed-out result with a nonzero exit code whose stderr, the child's
\* output and the marker, is longer than maxOutput.
C5_Witness ==
    \E x \in CloseResults :
        /\ x.result.timedOut /\ x.result.success
        /\ x.result.exitCode = Some(1)
        /\ RequestedMaxOutput(requests[x.r]) = 1
        /\ x.result.stderr = <<"a", "b">> \o MarkerOf(x.r)

\* C6: stdout and stderr of a result are no longer than maxOutput (1 MiB
\* by default), a timed-out stderr no longer than maxOutput plus the marker,
\* and each is a tail of its buffer.
C6_OutputCapped ==
    \A x \in CloseResults :
        LET cap == RequestedMaxOutput(requests[x.r]) IN
        /\ Len(x.result.stdout) <= cap
        /\ Len(x.result.stderr) <=
               cap + IF x.result.timedOut THEN Len(MarkerOf(x.r)) ELSE 0
        /\ IsSuffix(x.result.stdout, exec[x.r].stdout)
        /\ IsSuffix(x.result.stderr, exec[x.r].stderr)

-----------------------------------------------------------------------------
(* Properties of the working directory *)

\* The executions that got as far as spawn.
Spawned == {r \in 1..Len(exec) : exec[r].phase \notin {"none", "rejected"}}

\* p is the workspace root or a path below it.
InWorkspace(p) == p = workspaceRoot \/ IsPrefix(workspaceRoot \o <<"/">>, p)

\* C9: the directory a child is started in, and result.cwd, is the
\* workspace root or one of its subdirectories.
C9_CwdInsideWorkspace ==
    /\ \A r \in Spawned : InWorkspace(exec[r].resolvedCwd)
    /\ \A x \in ExecResults : InWorkspace(x.result.cwd)

\* What path.resolve makes of each requested directory, written out; the
\* relative ones depend on the directory the server runs in.
NormalForm(base, cwd) ==
    CASE cwd = None -> workspaceRoot
      [] cwd = Some(workspaceRoot) -> workspaceRoot
      [] cwd = Some(workspaceRoot \o <<"/", "sub">>) -> workspaceRoot \o <<"/", "sub">>
      [] cwd = Some(workspaceRoot \o <<"/">>) -> workspaceRoot
      [] cwd = Some(workspaceRoot \o <<"/", "sub", "/", "..">>) -> workspaceRoot
      [] cwd = Some(workspaceRoot \o <<"/", ".", "/", "/", "sub">>)
             -> workspaceRoot \o <<"/", "sub">>
      [] cwd = Some(workspaceRoot \o <<"/", "..", "/", "..", "/", "etc">>)
             -> <<"/", "root", "/", "etc">>
      [] cwd = Some(workspaceRoot \o <<"-evil">>) -> workspaceRoot \o <<"-evil">>
      [] cwd = Some(<<"/", "root", "/", ".openclaw">>) -> <<"/", "root", "/", ".openclaw">>
      [] cwd = Some(<<"/", "etc">>) -> <<"/", "etc">>
      [] cwd = Some(<<"/">>) -> <<"/">>
      [] cwd = Some(<<"sub">>) -> base \o <<"/", "sub">>
      [] cwd = Some(<<"..", "/", "..">>)
             -> IF base = TmpDir THEN <<"/">> ELSE <<"/", "root", "/", ".openclaw">>
      [] cwd = Some(<<>>) -> base

\* The normalized requested directory has an allow-list entry as a prefix.
Listed(p) == \E dir \in {workspaceRoot} : IsPrefix(dir, p)

\* C10: a requested directory that has no allow-list entry as a prefix
\* does not reject the execution; the child runs in the workspace root and
\* result.cwd is the workspace root; a directory that has one is used, and
\* reported, in its normalized form.
C10_CwdFallback ==
    /\ \A r \in 1..Len(exec) : IsExecute(requests[r]) => r \in Spawned
    /\ \A r \in Spawned :
           LET p == NormalForm(processCwd, requests[r].args.cwd) IN
           exec[r].resolvedCwd = IF Listed(p) THEN p ELSE workspaceRoot
    /\ \A x \in ExecResults : x.result.cwd = exec[x.r].resolvedCwd

\* A directory outside the allow-list was requested through ".." segments
\* and the result of the close reports the workspace root.
C10_Witness ==
    \E x \in CloseResults :
        /\ requests[x.r].args.cwd = Some(workspaceRoot \o <<"/", "..", "/", "..", "/", "etc">>)
        /\ x.result.cwd = workspaceRoot
        /\ x.result.exitCode = Some(0)

-----------------------------------------------------------------------------
(* Properties of alias resolution *)

\* The words of a command whose words are single atoms.
Words(s) ==
    LET sel == SelectSeq(s, LAMBDA a : ~IsWS(a))
    IN [i \in 1..Len(sel) |-> <<sel[i]>>]

\* The command the claim expects: the template's words and the words after
\* the first, joined by one space, when the first word is a key of the
\* table; the command as it came otherwise.
ExpectedCommand(table, cmd) ==
    LET w == Words(cmd) IN
    IF w # <<>> /\ w[1] \in DOMAIN table
    THEN Join(Words(table[w[1]]) \o Tail(w), <<" ">>)
    ELSE cmd

\* C11: resolveCommand rewrites the first word only: when it is a key of
\* the alias table the command becomes the template's words followed by the
\* remaining words, joined by single spaces (once: the template's own first
\* word is not looked up again); when it is not a key, and also when an
\* alias name stands in a later position, the command is returned as it came.
C11_FirstTokenOnly ==
    \A r \in 1..Len(exec) :
        IsExecute(requests[r]) /\ requests[r].args.command.has =>
            /\ exec[r].phase # "rejected"
            /\ exec[r].resolvedCmd = ExpectedCommand(aliases, requests[r].args.command.v)

-----------------------------------------------------------------------------
(* Properties of the history log *)

\* The step is the handling of a call of the tool.
Handles(tool) ==
    /\ Len(requests') = Len(requests) + 1
    /\ requests'[Len(requests')].parsed
    /\ requests'[Len(requests')].method = "tools/call"
    /\ requests'[Len(requests')].tool = tool

\* The last m entries of the log, the most recent first.
LastFirst(hist, m) == [i \in 1..m |-> hist[Len(hist) + 1 - i]]

\* C12: a history call with limit k >= 0 (50 when omitted) on a log of N
\* entries is answered with the last min(k, N) entries, the most recent
\* first, and leaves the log as it was.
C12_HistoryQuery ==
    [][Handles("history") =>
          LET limit == requests'[Len(requests')].args.limit
              k == IF limit.has THEN limit.v ELSE 50
              N == Len(commandHistory)
              m == IF k < N THEN k ELSE N
          IN /\ Len(sent') = Len(sent) + 1
             /\ sent'[Len(sent')].payload.t = "history"
             /\ sent'[Len(sent')].payload.entries = LastFirst(commandHistory, m)
             /\ commandHistory' = commandHistory]_vars

\* The step appends one entry, that of execution r, at the end of the log.
AppendsEntryOf(r) ==
    /\ Len(commandHistory') = Len(commandHistory) + 1
    /\ SubSeq(commandHistory', 1, Len(commandHistory)) = commandHistory
    /\ commandHistory'[Len(commandHistory')].req = r

\* The step is the close event of execution r.
Closes(r) == exec[r].phase # "closed" /\ exec'[r].phase = "closed"

\* The results of close events were sent in the order of the log entries.
LogInCloseOrder ==
    \A i, j \in 1..Len(commandHistory) :
        i < j =>
            \A p, q \in 1..Len(sent) :
                /\ sent[p].req = commandHistory[i].req
                /\ sent[q].req = commandHistory[j].req
                /\ sent[p].payload.t = "exec" /\ sent[p].payload.result.kind = "result"
                /\ sent[q].payload.t = "exec" /\ sent[q].payload.result.kind = "result"
                => p < q

\* C13: the log is in completion order: whenever it changes, either
\* clearHistory emptied it or the close event of one execution put that
\* execution's entry at its end, behind the entries of all executions that
\* closed before, whatever the order in which the requests arrived.
C13_CompletionOrder ==
    /\ []LogInCloseOrder
    /\ [][commandHistory' # commandHistory =>
             \/ Handles("clearHistory") /\ commandHistory' = <<>>
             \/ \E r \in 1..Len(exec) : Closes(r) /\ AppendsEntryOf(r)]_vars

\* The second request closed before the first: its entry comes first.
C13_Witness ==
    /\ Len(commandHistory) = 2
    /\ commandHistory[1].req = 2 /\ commandHistory[2].req = 1
    /\ exec[1].phase = "closed" /\ exec[2].phase = "closed"

-----------------------------------------------------------------------------
(* Properties of the framer *)

\* The accumulated length after the first k lines of a body, one newline
\* counted for each line.
RECURSIVE Accumulated(_, _)
Accumulated(body, k) ==
    IF k = 0 THEN 0 ELSE Accumulated(body, k - 1) + StrLen(body[k]) + 1

\* The frames the claim is about: a positive length that the accumulated
\* length first reaches on the last line of the body, other header lines
\* that are neither blank nor a Content-Length, a body that is a JSON text.
Framed(fr) ==
    /\ fr.n > 0
    /\ fr.body # <<>>
    /\ Accumulated(fr.body, Len(fr.body)) >= fr.n
    /\ Accumulated(fr.body, Len(fr.body) - 1) < fr.n
    /\ \A i \in 1..Len(fr.other) :
           fr.other[i] # <<>> /\ ~IsWS(fr.other[i][1]) /\ ~IsHeaderName(fr.other[i][1])

Conforms(fr) == Framed(fr) /\ fr.msg.parsed

\* The frames of fs whose last line has been read.
FramesRead(fs) ==
    {i \in 1..Len(fs) : Len(StreamOf(SubSeq(fs, 1, i))) <= lineNo}

\* C14: when the input is a sequence of well-formed frames, the messages
\* handed to the dispatcher are those of the frames whose last body line has
\* been read, one for each frame, in the order of the frames.
C14_OneMessagePerFrame ==
    \A fs \in FrameSeqs :
        stdin = StreamOf(fs) /\ (\A i \in 1..Len(fs) : Conforms(fs[i])) =>
            /\ Len(requests) = Cardinality(FramesRead(fs))
            /\ \A i \in 1..Len(requests) : requests[i] = fs[i].msg

\* Two different well-formed frames, one with a body of two lines behind
\* another header, have been read to the end and handed over in order.
C14_Witness ==
    \E fs \in FrameSeqs :
        /\ stdin = StreamOf(fs) /\ lineNo = Len(stdin)
        /\ Len(fs) = 2 /\ Conforms(fs[1]) /\ Conforms(fs[2])
        /\ Len(fs[1].body) = 2 /\ fs[1].other # <<>> /\ Len(fs[2].body) = 1
        /\ requests = <<fs[1].msg, fs[2].msg>>
        /\ Len(sent) = 2

\* The response to a body that did not parse.
IsParseError(resp) ==
    resp.outcome = "error" /\ resp.code = -32700 /\ resp.hasId /\ resp.id = JNull

\* C15: a body that fails to parse is answered with one parse error (code
\* -32700, id null) and leaves the framer as a body that parsed leaves it:
\* waiting for headers, buffer empty, expected length zero; the frames that
\* follow are read and dispatched as if it had not been there.
C15_ParseErrorRecovers ==
    /\ [](\A fs \in FrameSeqs :
             stdin = StreamOf(fs) /\ (\A i \in 1..Len(fs) : Framed(fs[i])) =>
                 /\ Len(requests) = Cardinality(FramesRead(fs))
                 /\ \A i \in 1..Len(requests) :
                        /\ requests[i].parsed = fs[i].msg.parsed
                        /\ requests[i].parsed => requests[i] = fs[i].msg
                        /\ ~requests[i].parsed =>
                               /\ Cardinality(Responses(i)) = 1
                               /\ \A j \in Responses(i) : IsParseError(sent[j]))
    /\ [][Len(requests') = Len(requests) + 1 =>
             /\ framer' = [buffer |-> <<>>, contentLength |-> 0, readingBody |-> FALSE]
             /\ ~requests'[Len(requests')].parsed =>
                    /\ Len(sent') = Len(sent) + 1
                    /\ SubSeq(sent', 1, Len(sent)) = sent
                    /\ IsParseError(sent'[Len(sent')])]_vars

\* A frame whose body is not JSON was answered with a parse error and the
\* well-formed frame behind it was dispatched.
C15_Witness ==
    \E fs \in FrameSeqs :
        /\ stdin = StreamOf(fs) /\ lineNo = Len(stdin)
        /\ Len(fs) = 2 /\ Framed(fs[1]) /\ ~fs[1].msg.parsed /\ Conforms(fs[2])
        /\ requests = <<Unparsable, fs[2].msg>>
        /\ Len(sent) = 2 /\ IsParseError(sent[1]) /\ sent[2].req = 2
        /\ framer = FramerInit

-----------------------------------------------------------------------------
(* Properties of the error branches *)

\* The message asks for something the dispatcher reports as an error: an
\* unknown method, an unknown tool, an addAlias without name or command, a
\* removeAlias of a name that is not in the table.
IsErrorCase(msg, table) ==
    /\ msg.parsed
    /\ \/ msg.method \notin {"initialize", "notifications/initialized", "tools/call"}
       \/ /\ msg.method = "tools/call"
          /\ \/ msg.tool \notin {"execute", "history", "clearHistory", "aliases",
                                 "addAlias", "removeAlias"}
             \/ msg.tool = "addAlias" /\ (~msg.args.name.has \/ ~msg.args.command.has)
             \/ /\ msg.tool = "removeAlias"
                /\ msg.args.name.has
                /\ msg.args.name.v \notin DOMAIN table

\* C16: an unknown method, an unknown tool, an addAlias without name or
\* command and a removeAlias of a name that is not in the table is each
\* answered with an error, and neither the alias table nor the history log
\* changes.
C16_ErrorsChangeNothing ==
    [][Len(requests') = Len(requests) + 1
       /\ IsErrorCase(requests'[Len(requests')], aliases) =>
           /\ Len(sent') = Len(sent) + 1
           /\ sent'[Len(sent')].req = Len(requests')
           /\ sent'[Len(sent')].outcome = "error"
           /\ aliases' = aliases
           /\ commandHistory' = commandHistory]_vars

-----------------------------------------------------------------------------
(* Properties of a failed spawn *)

\* C17: an execution whose spawn failed is answered with success = false
\* and an error message and without an exit code, and the log never holds an
\* entry for it, whatever the child emits after its error event.
C17_NoEntryForFailedSpawn ==
    \A x \in ExecResults :
        x.result.kind = "error" =>
            /\ x.result.success = FALSE
            /\ "error" \in DOMAIN x.result
            /\ "exitCode" \notin DOMAIN x.result
            /\ \A i \in 1..Len(commandHistory) : commandHistory[i].req # x.r

-----------------------------------------------------------------------------
(* Properties of the output framing *)

\* The number of messages the framer extracts from the lines, starting
\* from the closure state f.
RECURSIVE Extracted(_, _)
Extracted(f, lines) ==
    IF lines = <<>> THEN 0
    ELSE LET h == lineHandler(f, Head(lines)) IN
         (IF h.complete THEN 1 ELSE 0) + Extracted(h.state, Tail(lines))

\* C18: what the server writes for a response is a Content-Length header
\* with the length of the body, a blank line and the JSON body, and the
\* server's own framer extracts exactly one message from it.
C18_ResponsesFramed ==
    \A i \in 1..Len(sent) :
        LET out == Written(sent[i]) IN
        /\ Len(out) = 3
        /\ MatchContentLength(out[1]).has
        /\ MatchContentLength(out[1]).v \in {StrLen(out[3]), StrLen(out[3]) + 1}
        /\ Trim(out[2]) = <<>>
        /\ Extracted(FramerInit, out) = 1

-----------------------------------------------------------------------------
(* Properties of the kill *)

\* The log holds an entry of execution r.
Recorded(r) == \E i \in 1..Len(commandHistory) : commandHistory[i].req = r

\* C19: SIGKILL is sent at most once in an execution: by the output
\* handler when the output is over the limit or by the timer, whichever
\* comes first, and the other then does nothing; timedOut and the marker
\* belong to the kill of the timer only, so an execution killed for its
\* output is not marked timedOut and is recorded in the log at its close.
C19_KillOnce ==
    \A r \in 1..Len(exec) :
        LET e == exec[r] IN
        /\ e.kills <= 1
        /\ e.killed <=> e.kills = 1
        /\ e.timedOut => e.killed
        /\ e.timedOut <=> Contains(e.stderr, MarkerOf(r))
        /\ e.killed /\ ~e.timedOut =>
               Len(e.stdout) + Len(e.stderr) > RequestedMaxOutput(requests[r])
        /\ e.phase = "closed" => (Recorded(r) <=> ~e.timedOut)

\* After the kill for the output the timer fired and did nothing: the
\* child is still running, killed once and not marked timedOut.
C19_Witness ==
    \E r \in 1..Len(exec) :
        /\ exec[r].phase = "running"
        /\ exec[r].killed /\ ~exec[r].timedOut /\ exec[r].kills = 1
        /\ ~exec[r].timerPending
        /\ exec[r].chunks = 3

\* C20: timedOut is set only by a timer that fires before the child has
\* ended: a child that ended by itself before its timer fired is reported
\* with timedOut = false and success = (exitCode = 0), and is recorded in the
\* log; once the result is there the timer is cancelled, so that no kill
\* is sent and no flag and no buffer changes any more.
C20_TimedOutOnlyBeforeExit ==
    /\ [](\A r \in 1..Len(exec) :
             exec[r].exited =>
                 /\ ~exec[r].timedOut
                 /\ exec[r].kills = 0
                 /\ exec[r].phase = "closed" =>
                        /\ Recorded(r)
                        /\ \A x \in CloseResults :
                               x.r = r => /\ ~x.result.timedOut
                                          /\ x.result.success = IsZero(x.result.exitCode))
    /\ [][\A r \in 1..Len(exec) :
              exec[r].settled =>
                  /\ ~exec'[r].timerPending
                  /\ exec'[r].kills = exec[r].kills
                  /\ exec'[r].killed = exec[r].killed
                  /\ exec'[r].timedOut = exec[r].timedOut
                  /\ exec'[r].stdout = exec[r].stdout
                  /\ exec'[r].stderr = exec[r].stderr]_vars

-----------------------------------------------------------------------------
(* Properties of the output handler *)

\* The combined length of the two buffers.
Combined(e) == Len(e.stdout) + Len(e.stderr)

\* The length of the longest chunk a child writes.
MaxChunk ==
    CHOOSE n \in {Len(c) : c \in OutputEnv.chunks} :
        \A c \in OutputEnv.chunks : Len(c) <= n

\* The step is a 'data' event of execution r.
Delivers(r) == exec'[r].chunks = exec[r].chunks + 1

\* C21: a chunk that arrives when the combined length of the buffers is
\* strictly greater than maxOutput is dropped, and the kill is sent unless a
\* kill or the timeout came before; any other chunk is appended whole to the
\* buffer of its stream.  So stdout does not grow once the combined length
\* is over the limit, and the combined length is at most maxOutput plus one
\* chunk, plus the marker after a timeout.
C21_ChunkDroppedOverLimit ==
    /\ [](\A r \in 1..Len(exec) :
             Combined(exec[r]) <=
                 RequestedMaxOutput(requests[r]) + MaxChunk
                 + IF exec[r].timedOut THEN Len(MarkerOf(r)) ELSE 0)
    /\ [][\A r \in 1..Len(exec) :
              LET e == exec[r]
                  f == exec'[r]
                  cap == RequestedMaxOutput(requests[r])
              IN /\ Combined(e) > cap => f.stdout = e.stdout
                 /\ Delivers(r) =>
                        IF Combined(e) > cap
                        THEN /\ f.stdout = e.stdout /\ f.stderr = e.stderr
                             /\ f.kills = e.kills + IF ~e.killed /\ ~e.timedOut THEN 1 ELSE 0
                             /\ f.killed
                        ELSE /\ \E chunk \in OutputEnv.chunks :
                                    \/ f.stdout = e.stdout \o chunk /\ f.stderr = e.stderr
                                    \/ f.stderr = e.stderr \o chunk /\ f.stdout = e.stdout
                             /\ f.kills = e.kills /\ f.killed = e.killed]_vars

\* A chunk crossed a limit of 1, the timer fired, and the next chunk was
\* dropped without another kill: stderr holds the one chunk and the marker.
C21_Witness ==
    \E r \in 1..Len(exec) :
        /\ RequestedMaxOutput(requests[r]) = 1
        /\ exec[r].timedOut /\ exec[r].kills = 1
        /\ exec[r].chunks = 2
        /\ exec[r].stdout = <<>>
        /\ exec[r].stderr = <<"a", "b">> \o MarkerOf(r)

-----------------------------------------------------------------------------
(* Properties of the framer's states *)

\* A line of whitespace only.
IsBlank(line) == \A i \in 1..Len(line) : IsWS(line[i])

\* The step reads the next line of the input.
Reads(line) == lineNo' = lineNo + 1 /\ line = stdin[lineNo + 1]

\* C22: the framer starts to read a body only on a blank line that follows
\* a Content-Length header with a positive value; a blank line with no
\* positive length pending, and a line that is neither blank nor a
\* Content-Length header while headers are read, changes nothing and is
\* answered by nothing.  While a body is read the expected length is
\* positive and the buffer is shorter than it; while headers are read the
\* buffer is empty.
C22_FramerStates ==
    /\ [](IF framer.readingBody
          THEN framer.contentLength > 0 /\ StrLen(framer.buffer) < framer.contentLength
          ELSE framer.buffer = <<>>)
    /\ [][\A line \in {stdin[i] : i \in 1..Len(stdin)} :
              Reads(line) /\ ~framer.readingBody =>
                  /\ framer'.readingBody =>
                         /\ IsBlank(line)
                         /\ framer.contentLength > 0
                         /\ \E j \in 1..lineNo :
                                MatchContentLength(stdin[j]) = Some(framer.contentLength)
                  /\ (IsBlank(line) /\ framer.contentLength <= 0)
                     \/ (~IsBlank(line) /\ ~MatchContentLength(line).has) =>
                         /\ framer' = framer
                         /\ requests' = requests
                         /\ sent' = sent]_vars

\* After a header the pattern does not match, a header with length zero, a
\* blank line and a line of text, all ignored, the framer has read the
\* headers of a well-formed frame and the first of its two body lines.
C22_Witness ==
    \E fs \in FrameSeqs :
        /\ stdin = StreamOf(fs)
        /\ Len(fs) = 2 /\ fs[1].n = 0 /\ fs[1].other # <<>>
        /\ Conforms(fs[2]) /\ Len(fs[2].body) = 2
        /\ lineNo = Len(stdin) - 1
        /\ framer.readingBody /\ framer.buffer = fs[2].body[1] \o <<"\n">>
        /\ requests = <<>> /\ sent = <<>>

=============================================================================
